---- MODULE Spec2Model ----
(***************************************************************************)
(* Model of genie/sample_scaffold.py: ScaffoldRunner (create_tasks,        *)
(* create_constants, execute) driven by MultiProcessor.run.                *)
(* Strings that the code takes apart (file paths, file names) are          *)
(* sequences of one-character strings, so that split and join are          *)
(* computed as the code computes them.                                     *)
(***************************************************************************)
EXTENDS Integers, Sequences, FiniteSets, TLC

VARIABLES
    params,       \* the parameter dictionary handed to run (vars(args))
    num_devices,  \* args.num_devices
    fs,           \* the data directory: readable or not, entries in enumeration order
    ctrl,         \* position of the controlling process
    exc,          \* the exception the controlling process raised, "" if none
    tasks,        \* result of create_tasks
    constants,    \* result of create_constants
    shards,       \* the task list split per device
    nstarted,     \* number of worker processes started so far
    pc,           \* position of each worker process in execute
    taskIdx,      \* per worker: position in its shard of the task of the for loop
    num_samples,  \* per worker: the local num_samples of execute
    log,          \* per worker: the params of its sampler.sample calls, in order
    loads,        \* per worker: number of load_pretrained_model calls
    fault         \* per worker: the call of its own that raised, "none" if none

vars == <<params, num_devices, fs, ctrl, exc, tasks, constants, shards, nstarted,
          pc, taskIdx, num_samples, log, loads, fault>>

ctrlVars == <<ctrl, exc, tasks, constants, shards, nstarted>>
inputVars == <<params, num_devices, fs>>

(* ------------------------------ bounds -------------------------------- *)
\* largest num_samples tried (the smallest is -1: argparse takes any int)
MaxN == 5
\* largest batch_size tried (the smallest is 0)
MaxB == 2
\* largest num_devices tried (the smallest is -1)
MaxD == 2
\* longest explicit motif_name list tried
MaxTasks == 3
\* requests recorded of a while loop whose batch size is 0
NoProgressKept == 2

DevIds == 0 .. (MaxD - 1)

(* ------------------------------ strings ------------------------------- *)
RECURSIVE Split(_, _)
\* str.split(sep) for a one-character separator: always at least one piece
Split(s, sep) ==
    IF s = <<>> THEN << <<>> >>
    ELSE LET rest == Split(Tail(s), sep)
         IN  IF Head(s) = sep
             THEN << <<>> >> \o rest
             ELSE << <<Head(s)>> \o Head(rest) >> \o Tail(rest)

Last(seq) == seq[Len(seq)]

EndsWith(s, suffix) ==
    /\ Len(s) >= Len(suffix)
    /\ SubSeq(s, Len(s) - Len(suffix) + 1, Len(s)) = suffix

\* os.path.join(a, b) for a relative b
PathJoin(a, b) ==
    IF a = <<>> \/ Last(a) = "/" THEN a \o b ELSE a \o <<"/">> \o b

PdbExt == <<".", "p", "d", "b">>

\* fnmatch of a directory entry against '*.pdb': glob's '*' does not match
\* a leading dot
MatchesPdbGlob(fname) ==
    /\ EndsWith(fname, PdbExt)
    /\ Head(fname) # "."

RECURSIVE SelectMatches(_, _)
SelectMatches(dir, entries) ==
    IF entries = <<>> THEN <<>>
    ELSE (IF MatchesPdbGlob(Head(entries))
          THEN << PathJoin(dir, Head(entries)) >> ELSE <<>>)
         \o SelectMatches(dir, Tail(entries))

\* glob.glob(os.path.join(datadir, '*.pdb')): the matching paths in the
\* directory's enumeration order; a missing or unreadable directory gives
\* the empty list, not an error
Glob(filesys, dir) ==
    IF filesys.readable THEN SelectMatches(dir, filesys.entries) ELSE <<>>

\* filepath.split('/')[-1].split('.')[0]
MotifNameOfPath(filepath) == Split(Last(Split(filepath, "/")), ".")[1]

(* --------------------------- ScaffoldRunner --------------------------- *)
ConstantNames ==
    {"rootdir", "name", "epoch", "scale", "strength",
     "outdir", "num_samples", "batch_size", "datadir", "structures"}

AllKeys == ConstantNames \cup {"motif_name", "num_devices"}

Raised(what) == [ok |-> FALSE, error |-> what, value |-> <<>>]
Returned(v) == [ok |-> TRUE, error |-> "", value |-> v]

\* the items a for loop over an explicit motif_name visits: the entries of
\* a list, the characters of a str
Items(mn) ==
    IF mn.kind = "str" THEN [i \in 1 .. Len(mn.val) |-> <<mn.val[i]>>] ELSE mn.val

\* the list the task loop iterates over
MotifNames(args, filesys) ==
    IF args["motif_name"].kind # "none"
    THEN Items(args["motif_name"])
    ELSE LET paths == Glob(filesys, args["datadir"])
         IN  [i \in 1 .. Len(paths) |-> MotifNameOfPath(paths[i])]

create_tasks(args, filesys) ==
    IF "motif_name" \notin DOMAIN args THEN Raised("KeyError")
    ELSE IF args["motif_name"].kind = "none" /\ "datadir" \notin DOMAIN args
    THEN Raised("KeyError")
    ELSE LET motif_names == MotifNames(args, filesys)
         IN  Returned([i \in 1 .. Len(motif_names) |->
                          [motif_name |-> motif_names[i]]])

create_constants(p) ==
    IF ConstantNames \subseteq DOMAIN p
    THEN Returned([k \in ConstantNames |-> p[k]])
    ELSE Raised("KeyError")

(* ----------------------- MultiProcessor.run --------------------------- *)
Min(a, b) == IF a <= b THEN a ELSE b

\* contiguous block split: shard i takes the next len(T) div D tasks, the
\* first len(T) mod D shards one more
ShardStart(n, d, i) == i * (n \div d) + Min(i, n % d)

ShardSize(n, d, i) == (n \div d) + (IF i < n % d THEN 1 ELSE 0)

\* mutant: every shard gets len(T) div D tasks, the remainder is dropped
PartitionDropsRemainder(ts, d) ==
    [j \in 1 .. d |->
        SubSeq(ts, (j - 1) * (Len(ts) \div d) + 1, j * (Len(ts) \div d))]

\* mutant: round-robin, task p goes to shard (p - 1) mod D
PartitionRoundRobin(ts, d) ==
    [j \in 1 .. d |->
        LET idx == SelectSeq([p \in 1 .. Len(ts) |-> p],
                             LAMBDA p : (p - 1) % d = j - 1)
        IN  [i \in 1 .. Len(idx) |-> ts[idx[i]]]]

Partition(ts, d) ==
    [j \in 1 .. d |->
        SubSeq(ts, ShardStart(Len(ts), d, j - 1) + 1,
                   ShardStart(Len(ts), d, j - 1) + ShardSize(Len(ts), d, j - 1))]

(* ------------------------------ inputs -------------------------------- *)
M1 == <<"m", "1">>
M2 == <<"m", "2">>
MotifPool == {M1, M2}

\* explicit motif_name lists: every list over MotifPool of length <= MaxTasks,
\* up to the renaming of the motifs (a non-empty list starts with M1)
ExplicitLists ==
    {l \in UNION {[1 .. n -> MotifPool] : n \in 0 .. MaxTasks} :
        l = <<>> \/ l[1] = M1}

\* the values of motif_name other than None: a list of names (from the
\* config file), or one str (from the command line, type=str)
ExplicitMotifNames ==
    {[kind |-> "list", val |-> l] : l \in ExplicitLists}
        \cup {[kind |-> "str", val |-> M1]}

APdb == <<"a", ".", "p", "d", "b">>
BPdb == <<"b", ".", "p", "d", "b">>
CTxt == <<"c", ".", "t", "x", "t">>
AV2Pdb == <<"a", ".", "v", "2", ".", "p", "d", "b">>

\* directory contents tried, each in one enumeration order
Listings ==
    { <<>>,
      <<APdb, BPdb, CTxt>>,
      <<CTxt, BPdb, APdb>>,
      <<APdb, AV2Pdb>> }

\* the data directories tried: the readable ones, and one that cannot be read
Directories ==
    {[readable |-> TRUE, entries |-> l] : l \in Listings}
        \cup {[readable |-> FALSE, entries |-> <<APdb, BPdb, CTxt>>]}

DataDir == <<"d", "/", "e">>

NoMotifName == [kind |-> "none", val |-> <<>>]

FullParams(mn, n, b, d) ==
    [rootdir |-> "results", name |-> "genie2", epoch |-> 1, scale |-> 1,
     strength |-> 0, outdir |-> "out", num_samples |-> n, batch_size |-> b,
     datadir |-> DataDir, structures |-> "contigs", motif_name |-> mn,
     num_devices |-> d]

Without(p, key) == [k \in (DOMAIN p) \ {key} |-> p[k]]

Init ==
    /\ \E n \in -1 .. MaxN, b \in 0 .. MaxB, d \in -1 .. MaxD :
        /\ num_devices = d
        /\ \/ \E mn \in ExplicitMotifNames :
                /\ fs = [readable |-> TRUE, entries |-> <<APdb, BPdb, CTxt>>]
                /\ \E key \in AllKeys \cup {"-"} :
                     params = Without(FullParams(mn, n, b, d), key)
           \/ \E dir \in Directories :
                /\ fs = dir
                /\ \E key \in AllKeys \cup {"-"} :
                     params = Without(FullParams(NoMotifName, n, b, d), key)
    /\ ctrl = "main"
    /\ exc = ""
    /\ tasks = <<>>
    /\ constants = <<>>
    /\ shards = <<>>
    /\ nstarted = 0
    /\ pc = [w \in DevIds |-> "absent"]
    /\ taskIdx = [w \in DevIds |-> 0]
    /\ num_samples = [w \in DevIds |-> 0]
    /\ log = [w \in DevIds |-> <<>>]
    /\ loads = [w \in DevIds |-> 0]
    /\ fault = [w \in DevIds |-> "none"]

(* --------------------------- the controller --------------------------- *)
Raise(what) ==
    /\ ctrl' = "raised"
    /\ exc' = what
    /\ UNCHANGED <<tasks, constants, shards, nstarted>>

workerVars == <<pc, taskIdx, num_samples, log, loads, fault>>

\* main: runner.run(vars(args), args.num_devices)
Main ==
    /\ ctrl = "main"
    /\ IF "num_devices" \in DOMAIN params
       THEN /\ ctrl' = "build"
            /\ UNCHANGED <<exc, tasks, constants, shards, nstarted>>
       ELSE Raise("AttributeError")
    /\ UNCHANGED <<inputVars, workerVars>>

\* run, build phase: create_tasks, then create_constants
Build ==
    /\ ctrl = "build"
    /\ LET t == create_tasks(params, fs)
           c == create_constants(params)
       IN  IF ~t.ok THEN Raise(t.error)
           ELSE IF ~c.ok THEN Raise(c.error)
           ELSE /\ tasks' = t.value
                /\ constants' = c.value
                /\ ctrl' = "partition"
                /\ UNCHANGED <<exc, shards, nstarted>>
    /\ UNCHANGED <<inputVars, workerVars>>

\* run, partition phase
PartitionPhase ==
    /\ ctrl = "partition"
    /\ IF num_devices <= 0
       THEN Raise("ConfigurationError")
       ELSE /\ shards' = Partition(tasks, num_devices)
            /\ ctrl' = "dispatch"
            /\ UNCHANGED <<exc, tasks, constants, nstarted>>
    /\ UNCHANGED <<inputVars, workerVars>>

\* run, dispatch phase: start the worker process of the next device
Dispatch ==
    /\ ctrl = "dispatch"
    /\ nstarted < num_devices
    /\ pc' = [pc EXCEPT ![nstarted] = "load"]
    /\ nstarted' = nstarted + 1
    /\ ctrl' = IF nstarted + 1 = num_devices THEN "join" ELSE "dispatch"
    /\ UNCHANGED <<inputVars, exc, tasks, constants, shards,
                   taskIdx, num_samples, log, loads, fault>>

Terminated(w) == pc[w] \in {"done", "failed"}

\* mutant: run waits for the first worker only
JoinWaitsForFirst ==
    /\ ctrl = "join"
    /\ Terminated(0)
    /\ ctrl' = "returned"
    /\ UNCHANGED <<inputVars, exc, tasks, constants, shards, nstarted, workerVars>>

\* run, join phase: returns once every worker process has exited
Join ==
    /\ ctrl = "join"
    /\ \A w \in 0 .. (num_devices - 1) : Terminated(w)
    /\ ctrl' = "returned"
    /\ UNCHANGED <<inputVars, exc, tasks, constants, shards, nstarted, workerVars>>

(* ------------------------- execute (a worker) ------------------------- *)
RECURSIVE SumSizes(_)
\* the samples asked for by a sequence of requests
SumSizes(rs) ==
    IF rs = <<>> THEN 0 ELSE Head(rs).num_samples + SumSizes(Tail(rs))

Workers == 0 .. (num_devices - 1)

\* the tasks argument of worker w's execute
Shard(w) == shards[w + 1]

\* position in the whole task list of the task worker w is working on
TaskPos(w) == ShardStart(Len(tasks), num_devices, w) + taskIdx[w]

\* the log keeps every request of a worker whose batches make progress
\* (batch_size >= 1: at most num_samples requests per task); of a loop that
\* makes none (batch_size <= 0) it keeps the first NoProgressKept requests
LogCap(w) ==
    IF constants["batch_size"] >= 1
    THEN Len(Shard(w)) * (IF constants["num_samples"] > 0
                          THEN constants["num_samples"] ELSE 0)
    ELSE NoProgressKept

Record(w, call) ==
    IF Len(log[w]) < LogCap(w) THEN Append(log[w], call) ELSE log[w]

\* load_pretrained_model(...).eval().to(device) returns
LoadModel(w) ==
    /\ pc[w] = "load"
    /\ loads' = [loads EXCEPT ![w] = @ + 1]
    /\ pc' = [pc EXCEPT ![w] = "for"]
    /\ UNCHANGED <<inputVars, ctrlVars, taskIdx, num_samples, log, fault>>

\* load_pretrained_model raises: the exception leaves execute
LoadModelFails(w) ==
    /\ pc[w] = "load"
    /\ loads' = [loads EXCEPT ![w] = @ + 1]
    /\ pc' = [pc EXCEPT ![w] = "failed"]
    /\ fault' = [fault EXCEPT ![w] = "load"]
    /\ UNCHANGED <<inputVars, ctrlVars, taskIdx, num_samples, log>>

\* mutant: the model is loaded again for every task
NextTaskReloads(w) ==
    /\ pc[w] = "for"
    /\ taskIdx[w] < Len(Shard(w))
    /\ taskIdx' = [taskIdx EXCEPT ![w] = @ + 1]
    /\ num_samples' = [num_samples EXCEPT ![w] = constants["num_samples"]]
    /\ loads' = [loads EXCEPT ![w] = @ + 1]
    /\ pc' = [pc EXCEPT ![w] = "while"]
    /\ UNCHANGED <<inputVars, ctrlVars, log, fault>>

\* mutant: num_samples is initialised once, before the for loop
NextTaskSharedCounter(w) ==
    /\ pc[w] = "for"
    /\ taskIdx[w] < Len(Shard(w))
    /\ taskIdx' = [taskIdx EXCEPT ![w] = @ + 1]
    /\ num_samples' = [num_samples EXCEPT ![w] =
                          IF taskIdx[w] = 0 THEN constants["num_samples"] ELSE @]
    /\ pc' = [pc EXCEPT ![w] = "while"]
    /\ UNCHANGED <<inputVars, ctrlVars, log, loads, fault>>

\* for task in tasks: the next task, num_samples = constants['num_samples']
NextTask(w) ==
    /\ pc[w] = "for"
    /\ taskIdx[w] < Len(Shard(w))
    /\ taskIdx' = [taskIdx EXCEPT ![w] = @ + 1]
    /\ num_samples' = [num_samples EXCEPT ![w] = constants["num_samples"]]
    /\ pc' = [pc EXCEPT ![w] = "while"]
    /\ UNCHANGED <<inputVars, ctrlVars, log, loads, fault>>

\* mutant: a worker handed an empty task list ends with an error
FinishFailsOnEmpty(w) ==
    /\ pc[w] = "for"
    /\ taskIdx[w] >= Len(Shard(w))
    /\ pc' = [pc EXCEPT ![w] = IF Shard(w) = <<>> THEN "failed" ELSE "done"]
    /\ UNCHANGED <<inputVars, ctrlVars, taskIdx, num_samples, log, loads, fault>>

\* the for loop is exhausted: execute returns
Finish(w) ==
    /\ pc[w] = "for"
    /\ taskIdx[w] >= Len(Shard(w))
    /\ pc' = [pc EXCEPT ![w] = "done"]
    /\ UNCHANGED <<inputVars, ctrlVars, taskIdx, num_samples, log, loads, fault>>

\* mutant: the batch size is not capped by the remaining samples
BatchSizeUncapped(w) == constants["batch_size"]

\* batch_size = min(constants['batch_size'], num_samples)
BatchSize(w) == Min(constants["batch_size"], num_samples[w])

\* mutant: the offset counts the samples the worker has requested so far,
\* over all its tasks
OffsetAcrossTasks(w) == SumSizes(log[w])

\* mutant: the offset is the number of samples still to draw
OffsetRemaining(w) == num_samples[w]

\* offset = constants['num_samples'] - num_samples
Offset(w) == constants["num_samples"] - num_samples[w]

\* os.path.join(constants['datadir'], '{}.pdb'.format(task['motif_name']))
MotifFilePath(dir, motif_name) == PathJoin(dir, motif_name \o PdbExt)

\* the params dictionary of one sampler.sample call (task: its position in
\* the task list, kept for the record only)
Request(w) ==
    [filepath |-> MotifFilePath(constants["datadir"], Shard(w)[taskIdx[w]].motif_name),
     scale |-> constants["scale"],
     strength |-> constants["strength"],
     num_samples |-> BatchSize(w),
     outdir |-> constants["outdir"],
     prefix |-> Shard(w)[taskIdx[w]].motif_name,
     offset |-> Offset(w),
     structures |-> constants["structures"],
     task |-> TaskPos(w)]

\* one pass of the while loop, sampler.sample returns
Sample(w) ==
    /\ pc[w] = "while"
    /\ num_samples[w] > 0
    /\ log' = [log EXCEPT ![w] = Record(w, Request(w))]
    /\ num_samples' = [num_samples EXCEPT ![w] = @ - BatchSize(w)]
    /\ UNCHANGED <<inputVars, ctrlVars, pc, taskIdx, loads, fault>>

\* mutant: the exception is swallowed and the batch is tried again
SampleFailsAndRetries(w) ==
    /\ pc[w] = "while"
    /\ num_samples[w] > 0
    /\ log' = [log EXCEPT ![w] = Record(w, Request(w))]
    /\ fault' = [fault EXCEPT ![w] = "sample"]
    /\ UNCHANGED <<inputVars, ctrlVars, pc, taskIdx, num_samples, loads>>

\* mutant: the exception takes the other running workers down with it
SampleFailsStopsAll(w) ==
    /\ pc[w] = "while"
    /\ num_samples[w] > 0
    /\ log' = [log EXCEPT ![w] = Record(w, Request(w))]
    /\ pc' = [v \in DevIds |->
                IF pc[v] \in {"absent", "done"} THEN pc[v] ELSE "failed"]
    /\ fault' = [fault EXCEPT ![w] = "sample"]
    /\ UNCHANGED <<inputVars, ctrlVars, taskIdx, num_samples, loads>>

\* one pass of the while loop, sampler.sample raises: the exception leaves
\* execute
SampleFails(w) ==
    /\ pc[w] = "while"
    /\ num_samples[w] > 0
    /\ log' = [log EXCEPT ![w] = Record(w, Request(w))]
    /\ pc' = [pc EXCEPT ![w] = "failed"]
    /\ fault' = [fault EXCEPT ![w] = "sample"]
    /\ UNCHANGED <<inputVars, ctrlVars, taskIdx, num_samples, loads>>

\* mutant: the loop is left one sample early (while num_samples > 1)
ExitWhileEarly(w) ==
    /\ pc[w] = "while"
    /\ num_samples[w] <= 1
    /\ pc' = [pc EXCEPT ![w] = "for"]
    /\ UNCHANGED <<inputVars, ctrlVars, taskIdx, num_samples, log, loads, fault>>

\* while num_samples > 0 is false: back to the for loop
ExitWhile(w) ==
    /\ pc[w] = "while"
    /\ num_samples[w] <= 0
    /\ pc' = [pc EXCEPT ![w] = "for"]
    /\ UNCHANGED <<inputVars, ctrlVars, taskIdx, num_samples, log, loads, fault>>

Next ==
    \/ Main
    \/ Build
    \/ PartitionPhase
    \/ Dispatch
    \/ Join
    \/ \E w \in DevIds : LoadModel(w)
    \/ \E w \in DevIds : LoadModelFails(w)
    \/ \E w \in DevIds : NextTask(w)
    \/ \E w \in DevIds : Finish(w)
    \/ \E w \in DevIds : Sample(w)
    \/ \E w \in DevIds : SampleFails(w)
    \/ \E w \in DevIds : ExitWhile(w)

Spec == Init /\ [][Next]_vars

(* ------------------------- auxiliary operators ------------------------ *)
\* the build phase has produced tasks and constants
Built == ctrl \in {"partition", "dispatch", "join", "returned"}

\* the partition phase has produced the shards
Partitioned == ctrl \in {"dispatch", "join", "returned"}

Started(w) == pc[w] # "absent"

CfgN == constants["num_samples"]
CfgB == constants["batch_size"]

\* num_samples and batch_size are sample counts: N >= 0 and B >= 1
ValidCounts == CfgN >= 0 /\ CfgB >= 1

CeilDiv(n, b) == (n + b - 1) \div b

RECURSIVE Flatten(_)
Flatten(ss) == IF ss = <<>> THEN <<>> ELSE Head(ss) \o Flatten(Tail(ss))

RECURSIVE SumLen(_)
SumLen(ss) == IF ss = <<>> THEN 0 ELSE Len(Head(ss)) + SumLen(Tail(ss))

Count(seq, v) == Cardinality({i \in 1 .. Len(seq) : seq[i] = v})

Range(seq) == {seq[i] : i \in 1 .. Len(seq)}

\* the requests worker w issued for the task at position p of the task list
ReqsOf(w, p) == SelectSeq(log[w], LAMBDA r : r.task = p)

\* worker w has left the while loop of the k-th task of its shard normally
TaskDone(w, k) ==
    \/ k < taskIdx[w]
    \/ k = taskIdx[w] /\ pc[w] \in {"for", "done"}

Sizes(rs) == [i \in 1 .. Len(rs) |-> rs[i].num_samples]
Offsets(rs) == [i \in 1 .. Len(rs) |-> rs[i].offset]

RECURSIVE TaskRequests(_, _, _, _)
\* the requests a worker that nothing interrupts issues for the task at
\* position pos of the task list, rem samples remaining, at most fuel of them
TaskRequests(motif, pos, rem, fuel) ==
    IF rem <= 0 \/ fuel = 0 THEN <<>>
    ELSE << [filepath |-> MotifFilePath(constants["datadir"], motif),
             scale |-> constants["scale"],
             strength |-> constants["strength"],
             num_samples |-> Min(CfgB, rem),
             outdir |-> constants["outdir"],
             prefix |-> motif,
             offset |-> CfgN - rem,
             structures |-> constants["structures"],
             task |-> pos] >>
         \o TaskRequests(motif, pos, rem - Min(CfgB, rem), fuel - 1)

RECURSIVE ShardRequests(_, _, _)
\* the same for the tasks k, k+1, ... of worker w's shard; a task whose
\* requests use up the fuel is one whose loop does not end
ShardRequests(w, k, fuel) ==
    IF k > Len(Shard(w)) \/ fuel = 0 THEN <<>>
    ELSE LET rs == TaskRequests(Shard(w)[k].motif_name,
                                ShardStart(Len(tasks), num_devices, w) + k,
                                CfgN, fuel)
         IN  rs \o ShardRequests(w, k + 1, fuel - Len(rs))

\* the log of worker w in a run of the same input in which nothing fails
FailureFreeLog(w) == ShardRequests(w, 1, LogCap(w))

\* the first n requests of that log (fewer if it has fewer)
FailureFreePrefix(w, n) == ShardRequests(w, 1, n)

\* the input is one for which the spec demands a ConfigurationError
InvalidConfiguration ==
    \/ DOMAIN params # AllKeys
    \/ /\ "motif_name" \in DOMAIN params
       /\ params["motif_name"].kind = "none"
       /\ ~fs.readable
    \/ num_devices <= 0

\* the (prefix, offset) keys of the Sampler calls made so far
OutputKeys ==
    UNION {{<<log[w][i].prefix, log[w][i].offset>> : i \in 1 .. Len(log[w])} :
              w \in DevIds}

\* the motif names the configuration stands for, whatever the order in
\* which the directory is enumerated
ConfiguredMotifs ==
    IF params["motif_name"].kind # "none"
    THEN Range(MotifNames(params, fs))
    ELSE IF fs.readable
    THEN {MotifNameOfPath(PathJoin(params["datadir"], f)) :
              f \in {g \in Range(fs.entries) : MatchesPdbGlob(g)}}
    ELSE {}

\* the offsets 0, B, 2B, ... below N
ConfiguredOffsets ==
    IF params["num_samples"] <= 0 \/ params["batch_size"] <= 0 THEN {}
    ELSE {o \in 0 .. (params["num_samples"] - 1) : o % params["batch_size"] = 0}

\* a path with only the directory and the .pdb extension removed
BaseName(filepath) ==
    LET fname == Last(Split(filepath, "/"))
    IN  SubSeq(fname, 1, Len(fname) - Len(PdbExt))

(* ------------------------------- claims ------------------------------- *)

\* C1: for one task with num_samples = N >= 0 and batch_size = B >= 1 the
\* while loop of execute issues requests at offsets 0, B, 2B, ... in that
\* order, each of size 1..B and ending at or before N; once the loop is left
\* there are exactly ceil(N/B) of them and their sizes sum to N.
C1_BatchSequence ==
    \A w \in DevIds :
        (Started(w) /\ ValidCounts) =>
            \A k \in 1 .. taskIdx[w] :
                LET rs == ReqsOf(w, ShardStart(Len(tasks), num_devices, w) + k)
                IN  /\ \A i \in 1 .. Len(rs) :
                            /\ rs[i].offset = (i - 1) * CfgB
                            /\ rs[i].num_samples >= 1
                            /\ rs[i].num_samples <= CfgB
                            /\ rs[i].offset < CfgN
                            /\ rs[i].offset + rs[i].num_samples <= CfgN
                    /\ TaskDone(w, k) =>
                            /\ Len(rs) = CeilDiv(CfgN, CfgB)
                            /\ SumSizes(rs) = CfgN

\* C1 witness: N = 5, B = 2, a finished task with sizes [2,2,1] at offsets
\* [0,2,4]
C1_Witness ==
    /\ Started(0)
    /\ CfgN = 5 /\ CfgB = 2
    /\ TaskDone(0, 1)
    /\ Sizes(ReqsOf(0, 1)) = <<2, 2, 1>>
    /\ Offsets(ReqsOf(0, 1)) = <<0, 2, 4>>

\* C2: no two Sampler invocations of a run carry the same (prefix, offset)
\* pair (stated here for runs whose num_samples and batch_size are sample
\* counts, N >= 0 and B >= 1).
C2_UniqueKeys ==
    Built /\ ValidCounts =>
        \A w1 \in DevIds, w2 \in DevIds :
            \A i \in 1 .. Len(log[w1]), j \in 1 .. Len(log[w2]) :
                (log[w1][i].prefix = log[w2][j].prefix
                    /\ log[w1][i].offset = log[w2][j].offset)
                => (w1 = w2 /\ i = j)

\* C3: the partition phase produces exactly D shards, every task appears
\* in exactly one shard (each task value as often in the shards as in the
\* task list, the lengths summing to len(T)), and two shard sizes differ by
\* at most 1.
C3_Partition ==
    Partitioned =>
        /\ Len(shards) = num_devices
        /\ SumLen(shards) = Len(tasks)
        /\ \A t \in Range(tasks) : Count(Flatten(shards), t) = Count(tasks, t)
        /\ Range(Flatten(shards)) \subseteq Range(tasks)
        /\ \A i \in 1 .. Len(shards), j \in 1 .. Len(shards) :
                Len(shards[i]) - Len(shards[j]) <= 1

\* C3 witness: three tasks on two devices, shard sizes 2 and 1
C3_Witness ==
    /\ Partitioned
    /\ Len(tasks) = 3
    /\ num_devices = 2
    /\ Len(shards[1]) = 2 /\ Len(shards[2]) = 1

\* C4: concatenating the shards in device order reproduces the task list.
C4_Contiguous ==
    Partitioned => Flatten(shards) = tasks

\* C4 witness: three tasks, two of them distinct, split over two devices
C4_Witness ==
    /\ Partitioned
    /\ num_devices = 2
    /\ Len(tasks) = 3
    /\ tasks[1] # tasks[2]
    /\ Len(shards[1]) = 2

\* C5: for every configured num_samples and batch_size the while loop of
\* execute terminates with the remaining-sample counter at exactly 0: every
\* pass that calls the Sampler brings the counter strictly closer to 0
\* without passing it, and whenever a worker is back in the for loop after
\* a task the counter is 0.
C5_LoopEndsAtZero ==
    [][\A w \in DevIds :
          /\ (pc[w] = "while" /\ pc'[w] = "while" /\ log'[w] # log[w]) =>
                (num_samples'[w] < num_samples[w] /\ num_samples'[w] >= 0)
          /\ (pc[w] = "for" /\ taskIdx[w] >= 1) => num_samples[w] = 0]_vars

\* C6: when run has returned and nothing failed (N >= 0, B >= 1), every
\* task of the list was processed by exactly one worker, which asked the
\* Sampler for exactly N samples of that motif at pairwise different
\* offsets, and no worker issued any other request; with
\* motif_name = [m1, m2], N = 5, B = 2, D = 2 worker 0 issued sizes [2,2,1]
\* at offsets [0,2,4] for m1 and worker 1 the same for m2.
C6_EndToEnd ==
    (ctrl = "returned" /\ ValidCounts /\ \A w \in DevIds : fault[w] = "none") =>
        /\ \A p \in 1 .. Len(tasks) :
              \E w \in Workers :
                  LET rs == ReqsOf(w, p)
                  IN  /\ SumSizes(rs) = CfgN
                      /\ \A i \in 1 .. Len(rs) : rs[i].prefix = tasks[p].motif_name
                      /\ \A i \in 1 .. Len(rs), j \in 1 .. Len(rs) :
                              rs[i].offset = rs[j].offset => i = j
                      /\ \A v \in Workers \ {w} : ReqsOf(v, p) = <<>>
        /\ \A w \in Workers :
              /\ pc[w] = "done"
              /\ Len(log[w]) = Len(Shard(w)) * CeilDiv(CfgN, CfgB)
              /\ \A i \in 1 .. Len(log[w]) : log[w][i].task \in 1 .. Len(tasks)
        /\ (tasks = <<[motif_name |-> M1], [motif_name |-> M2]>>
                /\ CfgN = 5 /\ CfgB = 2 /\ num_devices = 2) =>
              /\ shards = << <<[motif_name |-> M1]>>, <<[motif_name |-> M2]>> >>
              /\ Sizes(log[0]) = <<2, 2, 1>> /\ Offsets(log[0]) = <<0, 2, 4>>
              /\ Sizes(log[1]) = <<2, 2, 1>> /\ Offsets(log[1]) = <<0, 2, 4>>
              /\ \A i \in 1 .. 3 : log[0][i].prefix = M1 /\ log[1][i].prefix = M2

\* C6 witness: the run of the scenario has returned without a failure
C6_Witness ==
    /\ ctrl = "returned"
    /\ \A w \in DevIds : fault[w] = "none"
    /\ tasks = <<[motif_name |-> M1], [motif_name |-> M2]>>
    /\ CfgN = 5 /\ CfgB = 2 /\ num_devices = 2
    /\ Len(log[0]) = 3 /\ Len(log[1]) = 3

\* C7: a worker whose Sampler call raised is in the failed state, the
\* failed call being the last of its log, and a failed worker never moves
\* again: no further Sampler call, no retry, no later task.
C7_NoRetryAfterFailure ==
    [][\A w \in DevIds :
          /\ fault'[w] = "sample" =>
                (pc'[w] = "failed" /\ log'[w] # <<>>)
          /\ pc[w] = "failed" =>
                /\ pc'[w] = "failed"
                /\ log'[w] = log[w]
                /\ taskIdx'[w] = taskIdx[w]
                /\ num_samples'[w] = num_samples[w]
                /\ fault'[w] = fault[w]]_vars

\* C7 witness: run has returned although a worker whose Sampler call
\* raised left a quota unmet and a later task of its shard unstarted
C7_Witness ==
    /\ ctrl = "returned"
    /\ \E w \in Workers :
          /\ pc[w] = "failed"
          /\ fault[w] = "sample"
          /\ ValidCounts
          /\ SumSizes(log[w]) < CfgN
          /\ taskIdx[w] < Len(Shard(w))

\* C8: whatever fails in the other workers, a worker issues the requests
\* of a failure-free run over its own shard, in the same order: its log is
\* always a prefix of that sequence, it stops early only when a call of its
\* own raised, and once it is done its log is the whole sequence; a worker
\* that was never started issues nothing.
C8_WorkersIndependent ==
    \A w \in DevIds :
        /\ ~Started(w) => log[w] = <<>>
        /\ Started(w) =>
              /\ log[w] = FailureFreePrefix(w, Len(log[w]))
              /\ pc[w] = "failed" => fault[w] # "none"
              /\ pc[w] = "done" => log[w] = FailureFreeLog(w)

\* C8 witness: one worker failed with part of its shard undone, another
\* finished its own, non-empty, sequence of requests
C8_Witness ==
    \E w \in Workers, v \in Workers :
        /\ w # v
        /\ pc[w] = "failed"
        /\ taskIdx[w] < Len(Shard(w))
        /\ pc[v] = "done"
        /\ log[v] # <<>>
        /\ ctrl = "returned"

\* C9: if a required parameter is missing, the data directory is
\* unreadable with no explicit motif list, or the device count is <= 0,
\* then run never returns normally and no worker is started, no model is
\* loaded and no Sampler call is made.
C9_NothingDispatched ==
    InvalidConfiguration =>
        /\ ctrl # "returned"
        /\ nstarted = 0
        /\ \A w \in DevIds : ~Started(w) /\ loads[w] = 0 /\ log[w] = <<>>

\* C10: run has returned only if all D workers were started and every one
\* of them has terminated, normally or by failure.
C10_JoinWaitsForAll ==
    ctrl = "returned" =>
        /\ nstarted = num_devices
        /\ \A w \in Workers : Terminated(w)

\* C10 witness: run has returned with one worker failed and one done
C10_Witness ==
    /\ ctrl = "returned"
    /\ num_devices = 2
    /\ pc[0] = "failed"
    /\ pc[1] = "done"
    /\ log[1] # <<>>

\* C11: when there are more devices than tasks, every shard with index
\* >= len(T) is empty, and its worker makes no Sampler call, fails only if
\* its model load raised, and has loaded the model once when it is done.
C11_ExcessWorkersIdle ==
    (Partitioned /\ num_devices > Len(tasks)) =>
        \A w \in Workers :
            w >= Len(tasks) =>
                /\ Shard(w) = <<>>
                /\ log[w] = <<>>
                /\ taskIdx[w] = 0
                /\ pc[w] = "failed" => fault[w] = "load"
                /\ pc[w] = "done" => loads[w] = 1

\* C11 witness: one task on two devices, the second worker is done after
\* loading its model, the run has returned
C11_Witness ==
    /\ ctrl = "returned"
    /\ Len(tasks) = 1
    /\ num_devices = 2
    /\ pc[1] = "done"
    /\ loads[1] = 1
    /\ log[0] # <<>>

\* C12: the (motif_name, offset) keys of a run that returned without a
\* failure are determined by the configuration alone (the set of motifs it
\* names, N and B), not by the interleaving of the workers nor by the order
\* in which the directory was enumerated: two such runs of one
\* configuration produce the same keys.
C12_KeysDetermined ==
    (ctrl = "returned" /\ \A w \in DevIds : fault[w] = "none") =>
        OutputKeys = ConfiguredMotifs \X ConfiguredOffsets

\* C12 witness: the directory a.pdb, b.pdb, c.txt enumerated backwards,
\* two devices, several batches per task, the run has returned
C12_Witness ==
    /\ ctrl = "returned"
    /\ \A w \in DevIds : fault[w] = "none"
    /\ fs = [readable |-> TRUE, entries |-> <<CTxt, BPdb, APdb>>]
    /\ params["motif_name"].kind = "none"
    /\ num_devices = 2
    /\ Cardinality(OutputKeys) = 6

\* C13: if motif_name is a non-empty explicit list, create_tasks emits one
\* task per listed name in listed order; in every other case it scans
\* datadir and emits exactly one task per file with the .pdb extension and
\* none for other files (a.pdb, b.pdb, c.txt gives exactly {a, b}).
C13_TaskSource ==
    Built =>
        LET mn == params["motif_name"]
            pdbs == {i \in 1 .. Len(fs.entries) : EndsWith(fs.entries[i], PdbExt)}
        IN  IF mn.kind = "list" /\ mn.val # <<>>
            THEN tasks = [i \in 1 .. Len(mn.val) |-> [motif_name |-> mn.val[i]]]
            ELSE fs.readable =>
                    /\ Len(tasks) = Cardinality(pdbs)
                    /\ Range(fs.entries) = {APdb, BPdb, CTxt} =>
                          {t.motif_name : t \in Range(tasks)} = {<<"a">>, <<"b">>}

\* C14: within one worker the Sampler calls are ordered by (position of
\* the task in the shard, offset): every call is for a task of the worker's
\* own shard, a call is never followed by one for an earlier task, and two
\* successive calls for the same task have non-decreasing offsets.
C14_WorkerOrder ==
    \A w \in DevIds :
        \A i \in 1 .. Len(log[w]) :
            LET r == log[w][i]
                k == r.task - ShardStart(Len(tasks), num_devices, w)
            IN  /\ k \in 1 .. Len(Shard(w))
                /\ r.prefix = Shard(w)[k].motif_name
                /\ i > 1 =>
                      \/ log[w][i - 1].task < r.task
                      \/ /\ log[w][i - 1].task = r.task
                         /\ log[w][i - 1].offset <= r.offset

\* C14 witness: a worker has finished two tasks of several batches each
C14_Witness ==
    \E w \in Workers :
        /\ pc[w] = "done"
        /\ Len(Shard(w)) >= 2
        /\ Len(ReqsOf(w, ShardStart(Len(tasks), num_devices, w) + 1)) >= 2
        /\ Len(ReqsOf(w, ShardStart(Len(tasks), num_devices, w) + 2)) >= 2

\* C15: a worker calls load_pretrained_model at most once, exactly once as
\* soon as it is past the load, whatever the number of its tasks and
\* batches, and it has made no Sampler call before the load returned.
C15_LoadOnce ==
    \A w \in DevIds :
        /\ loads[w] <= 1
        /\ pc[w] \in {"absent", "load"} => (loads[w] = 0 /\ log[w] = <<>>)
        /\ pc[w] \in {"for", "while", "done", "failed"} => loads[w] = 1
        /\ log[w] # <<>> => (loads[w] = 1 /\ fault[w] # "load")
        /\ fault[w] = "load" => log[w] = <<>>

\* C15 witness: a worker is done with two tasks and several batches after
\* one load
C15_Witness ==
    \E w \in Workers :
        pc[w] = "done" /\ taskIdx[w] >= 2 /\ Len(log[w]) >= 4 /\ loads[w] = 1

\* C16: after a datadir scan, the identifier of the i-th task is the i-th
\* discovered file's name with only the directory and the extension
\* removed, and the file path execute builds for that task, in the task
\* list and in every Sampler request, is the path of that file.
C16_DiscoveryRoundTrip ==
    (Built /\ params["motif_name"].kind = "none") =>
        LET paths == Glob(fs, params["datadir"])
        IN  /\ Len(tasks) = Len(paths)
            /\ \A i \in 1 .. Len(tasks) :
                  /\ tasks[i].motif_name = BaseName(paths[i])
                  /\ MotifFilePath(constants["datadir"], tasks[i].motif_name)
                        = paths[i]
            /\ \A w \in DevIds : \A i \in 1 .. Len(log[w]) :
                  log[w][i].filepath = paths[log[w][i].task]

\* C17: no step changes the constants, the task list or the shards once
\* they exist; a worker that moves to a task starts it with num_samples =
\* constants.num_samples, whatever it did before; and every new Sampler
\* request carries the scale, strength, outdir and structures of the
\* constants, the first request of a task being at offset 0.
C17_ConstantsReadOnly ==
    [][/\ Built => (constants' = constants /\ tasks' = tasks)
       /\ Partitioned => shards' = shards
       /\ \A w \in DevIds :
            /\ taskIdx'[w] # taskIdx[w] =>
                  num_samples'[w] = constants["num_samples"]
            /\ log'[w] # log[w] =>
                  LET r == Last(log'[w])
                  IN  /\ r.scale = constants["scale"]
                      /\ r.strength = constants["strength"]
                      /\ r.outdir = constants["outdir"]
                      /\ r.structures = constants["structures"]
                      /\ (log[w] = <<>> \/ Last(log[w]).task # r.task) =>
                            (r.offset = 0
                               /\ r.num_samples = Min(constants["batch_size"],
                                                      constants["num_samples"]))]_vars

\* C17 witness: a worker that has sampled its first task starts its second
\* with the full quota
C17_Witness ==
    \E w \in Workers :
        /\ pc[w] = "while"
        /\ taskIdx[w] = 2
        /\ log[w] # <<>>
        /\ num_samples[w] = CfgN
        /\ CfgN > 1

====
